---- MODULE Spec2Model ----
(***************************************************************************)
(* The in-memory task store of the FastAPI task-management service         *)
(* (python/src/main.py): the module-level list tasks_db and the request    *)
(* handlers that read and mutate it.                                       *)
(***************************************************************************)
EXTENDS Integers, Sequences, FiniteSets, TLC

(* ------------------------------ bounds -------------------------------- *)

\* Number of distinct ids uuid4 can hand out before Create is cut off.
MaxIds == 3
\* Largest number of tasks held in tasks_db at once.
MaxTasks == 2
\* Wall-clock readings are 0..MaxTime.
MaxTime == 1

(* --------------------------- value domains ---------------------------- *)

Ids == 1..MaxIds
Times == 0..MaxTime
Titles == {"t1", "t2"}
Descriptions == {"d1", "d2"}

\* Optional[X]: {} is None, {v} is the value v.
Optional(S) == {{}} \cup {{v} : v \in S}
IsNone(o) == o = {}
ValueOf(o) == CHOOSE v \in o : TRUE

\* class Task(BaseModel)
Task == [id : Ids, title : Titles, description : Descriptions,
         completed : BOOLEAN, created_at : Times, updated_at : Times]

\* class TaskCreate(BaseModel)
TaskCreate == [title : Titles, description : Descriptions]

\* class TaskUpdate(BaseModel): every field Optional, default None
TaskUpdate == [title : Optional(Titles), description : Optional(Descriptions),
               completed : Optional(BOOLEAN)]

(* ------------------------------ state --------------------------------- *)

VARIABLES
    tasks_db,   \* the module-level list of Task objects
    issued,     \* history: ids handed out to a Create so far
    gone,       \* history: ids deleted successfully since they were created
    nCreated,   \* history: number of successful Creates
    nDeleted,   \* history: number of successful Deletes
    frames,     \* event loop: the handler coroutine of each client's request
    running     \* event loop: the client whose coroutine it is running, or 0

vars == <<tasks_db, issued, gone, nCreated, nDeleted, frames, running>>

hist == <<issued, gone, nCreated, nDeleted>>

loop == <<frames, running>>

(* ----------------------- library calls the code makes ----------------- *)

\* datetime.now(): a reading of the local wall clock.  Nothing orders two
\* readings: the wall clock can be set back between them.
datetime_now == Times

\* Faulty variant: the id is the list's length plus one instead of a uuid.
uuid4_length(used) == {Len(tasks_db) + 1}

\* str(uuid4()): an id that was not handed out before.
uuid4(used) == Ids \ used

\* next((i for i, t in enumerate(tasks_db) if t.id == task_id), None):
\* the first position holding task_id, 0 for None.
FirstIndex(db, task_id) ==
    IF \E i \in 1..Len(db) : db[i].id = task_id
    THEN CHOOSE i \in 1..Len(db) :
            /\ db[i].id = task_id
            /\ \A j \in 1..(i - 1) : db[j].id # task_id
    ELSE 0

\* Faulty variant: tasks_db.pop() without the index.
Pop_last(db, i) == SubSeq(db, 1, Len(db) - 1)

\* tasks_db.pop(task_index)
Pop(db, i) == SubSeq(db, 1, i - 1) \o SubSeq(db, i + 1, Len(db))

\* len([t for t in tasks_db if t.completed])
CountCompleted(db) == Cardinality({i \in 1..Len(db) : db[i].completed})

\* Faulty variant: the filter "if not t.completed" left out.
CountPending_all(db) == Len(db)

\* len([t for t in tasks_db if not t.completed])
CountPending(db) == Cardinality({i \in 1..Len(db) : ~db[i].completed})

\* raise HTTPException(status_code=404,
\*                     detail=f"Task with id {task_id} not found")
NotFound(task_id) == [status |-> 404, body |-> [detail_id |-> task_id]]

(* ------------------- what each handler does and returns --------------- *)

\* Faulty variant: total taken from a count of the tasks created.
list_tasks_response_created(db) ==
    [status |-> 200, body |-> [tasks |-> db, total |-> nCreated]]

\* GET /api/tasks: {"tasks": tasks_db, "total": len(tasks_db)}
list_tasks_response(db) ==
    [status |-> 200, body |-> [tasks |-> db, total |-> Len(db)]]

\* Task(id=str(uuid4()), title=task_data.title,
\*      description=task_data.description,
\*      created_at=datetime.now(), updated_at=datetime.now())
\* completed takes the model's default, False.
NewTask(id, task_data, t1, t2) ==
    [id |-> id, title |-> task_data.title, description |-> task_data.description,
     completed |-> FALSE, created_at |-> t1, updated_at |-> t2]

\* POST /api/tasks returns the Task it appended, with status 201.
create_task_response(task) == [status |-> 201, body |-> task]

\* GET /api/tasks/{task_id}
get_task_response(db, task_id) ==
    LET i == FirstIndex(db, task_id) IN
    IF i = 0 THEN NotFound(task_id)
    ELSE [status |-> 200, body |-> db[i]]

\* The three "is not None" assignments of update_task.
SetTitle(task, task_update) ==
    IF IsNone(task_update.title) THEN task
    ELSE [task EXCEPT !.title = ValueOf(task_update.title)]

SetDescription(task, task_update) ==
    IF IsNone(task_update.description) THEN task
    ELSE [task EXCEPT !.description = ValueOf(task_update.description)]

\* Faulty variant: task.completed = bool(task_update.completed), no None test.
SetCompleted_always(task, task_update) ==
    [task EXCEPT !.completed = (task_update.completed = {TRUE})]

SetCompleted(task, task_update) ==
    IF IsNone(task_update.completed) THEN task
    ELSE [task EXCEPT !.completed = ValueOf(task_update.completed)]

\* The "Update fields" block of update_task, then task.updated_at = t.
UpdateFields(task, task_update, t) ==
    [SetCompleted(SetDescription(SetTitle(task, task_update), task_update),
                  task_update)
        EXCEPT !.updated_at = t]

\* Faulty variant: PUT of an unknown id stores a new task under it (an upsert).
Updated_upsert(db, task_id, task_update, t) ==
    LET i == FirstIndex(db, task_id) IN
    IF i = 0
    THEN Append(db, [id |-> task_id, title |-> "t1", description |-> "d1",
                     completed |-> FALSE, created_at |-> t, updated_at |-> t])
    ELSE [db EXCEPT ![i] = UpdateFields(@, task_update, t)]

\* tasks_db after update_task(task_id, task_update) read the clock as t.
Updated(db, task_id, task_update, t) ==
    LET i == FirstIndex(db, task_id) IN
    IF i = 0 THEN db
    ELSE [db EXCEPT ![i] = UpdateFields(@, task_update, t)]

\* PUT /api/tasks/{task_id} returns the Task it updated, or 404; db is the
\* list after the handler ran.
update_task_response(db, task_id) ==
    LET i == FirstIndex(db, task_id) IN
    IF i = 0 THEN NotFound(task_id)
    ELSE [status |-> 200, body |-> db[i]]

\* tasks_db after delete_task(task_id).
Deleted(db, task_id) ==
    LET task_index == FirstIndex(db, task_id) IN
    IF task_index = 0 THEN db ELSE Pop(db, task_index)

\* DELETE /api/tasks/{task_id}: 204 with no body, or 404; db is the list as
\* the handler finds it.
delete_task_response(db, task_id) ==
    IF FirstIndex(db, task_id) = 0 THEN NotFound(task_id)
    ELSE [status |-> 204, body |-> [detail_id |-> 0]]

\* GET /metrics: the three numbers of the exposition text.
metrics_text(total, completed_tasks, pending_tasks) ==
    [status |-> 200,
     body |-> [tasks_total |-> total, tasks_completed |-> completed_tasks,
               tasks_pending |-> pending_tasks]]

metrics_response(db) ==
    metrics_text(Len(db), CountCompleted(db), CountPending(db))

(* ------------------------- the event loop's state --------------------- *)

\* Clients with a request in flight at the same time.
MaxClients == 2

Clients == 1..MaxClients

NoData == [title |-> "", description |-> ""]
NoUpdate == [title |-> {}, description |-> {}, completed |-> {}]
NoTask == [id |-> 0, title |-> "", description |-> "", completed |-> FALSE,
           created_at |-> 0, updated_at |-> 0]
NoResult == [status |-> 0, body |-> [detail_id |-> 0]]

Request(op, task_id, task_data, task_update) ==
    [op |-> op, task_id |-> task_id, task_data |-> task_data,
     task_update |-> task_update]

\* A coroutine that is not there: nothing in flight for the client.
IdleFrame ==
    [pc |-> "idle", req |-> Request("none", 0, NoData, NoUpdate),
     task |-> NoTask, ref |-> 0, completed_tasks |-> 0, pending_tasks |-> 0,
     db0 |-> <<>>, result |-> NoResult]

(* ------------------ Spec: one action per handler ---------------------- *)
(* No handler awaits, so the event loop runs each from its first statement *)
(* to its return with no other handler in between (SpecLoop checks that).  *)
(* An action is the handler's effect on the store; what the handler        *)
(* answers is the operator X_response above, so the handlers that only     *)
(* read leave every variable as it is.                                     *)

Init ==
    /\ tasks_db = <<>>
    /\ issued = {}
    /\ gone = {}
    /\ nCreated = 0
    /\ nDeleted = 0
    /\ frames = [c \in Clients |-> IdleFrame]
    /\ running = 0

list_tasks == UNCHANGED vars

create_task(task_data) ==
    /\ Len(tasks_db) < MaxTasks
    /\ \E id \in uuid4(issued), t1 \in datetime_now, t2 \in datetime_now :
          /\ tasks_db' = Append(tasks_db, NewTask(id, task_data, t1, t2))
          /\ issued' = issued \cup {id}
          /\ gone' = gone \ {id}
    /\ nCreated' = nCreated + 1
    /\ UNCHANGED <<nDeleted, loop>>

get_task(task_id) == UNCHANGED vars

update_task(task_id, task_update) ==
    /\ \E t \in datetime_now :
          tasks_db' = Updated(tasks_db, task_id, task_update, t)
    /\ UNCHANGED <<hist, loop>>

delete_task(task_id) ==
    IF FirstIndex(tasks_db, task_id) = 0
    THEN UNCHANGED vars
    ELSE /\ tasks_db' = Deleted(tasks_db, task_id)
         /\ gone' = gone \cup {task_id}
         /\ nDeleted' = nDeleted + 1
         /\ UNCHANGED <<issued, nCreated, loop>>

metrics == UNCHANGED vars

Next ==
    \/ list_tasks
    \/ \E task_data \in TaskCreate : create_task(task_data)
    \/ \E task_id \in Ids : get_task(task_id)
    \/ \E task_id \in Ids, task_update \in TaskUpdate :
          update_task(task_id, task_update)
    \/ \E task_id \in Ids : delete_task(task_id)
    \/ metrics

Spec == Init /\ [][Next]_vars

(* -------- SpecLoop: the handlers statement by statement --------------- *)
(* Each handler is an "async def" coroutine the event loop runs.  The loop *)
(* switches coroutines only where one awaits; a frame records how far a    *)
(* handler got, its locals, and (history) the list it found at its start.  *)

\* Requests the clients send under SpecLoop.
LoopUpdates == {NoUpdate,
                [title |-> {"t2"}, description |-> {}, completed |-> {TRUE}]}

Requests ==
    {Request("list", 0, NoData, NoUpdate),
     Request("metrics", 0, NoData, NoUpdate),
     Request("create", 0, [title |-> "t1", description |-> "d1"], NoUpdate)}
    \cup {Request("get", id, NoData, NoUpdate) : id \in Ids}
    \cup {Request("update", id, NoData, u) : id \in Ids, u \in LoopUpdates}
    \cup {Request("delete", id, NoData, NoUpdate) : id \in Ids}

\* Faulty variant: the handlers are plain "def" functions, which FastAPI runs on
\* worker threads: any thread may run at any time.
CanRun_threads(c) == TRUE

\* The event loop runs client c's coroutine if it is running none, or is
\* in the middle of c's: no handler has an await, where it would let go.
CanRun(c) == running \in {0, c}

Mid(frame) == frame.pc \notin {"idle", "pending", "done"}

\* A response is written to its client before the loop takes up another
\* coroutine.
ResponseWaiting == \E c \in Clients : frames[c].pc = "done"

At(c, label) == frames[c].pc = label /\ CanRun(c) /\ ~ResponseWaiting

\* The coroutine goes on to its next statement.
Goto(c, label, frame) ==
    /\ frames' = [frames EXCEPT ![c] = [frame EXCEPT !.pc = label]]
    /\ running' = c

\* The coroutine returns (or raises): the response goes out.
Return(c, result) ==
    /\ frames' = [frames EXCEPT ![c] = [IdleFrame EXCEPT !.pc = "done",
                                                        !.result = result]]
    /\ running' = 0

\* The Task object a local variable refers to: the one in the list while it
\* is there, else the object as the coroutine last saw it.
Object(db, frame) ==
    IF FirstIndex(db, frame.ref) = 0 THEN frame.task
    ELSE db[FirstIndex(db, frame.ref)]

\* An assignment to a field of that object.
Assign(db, frame, task) ==
    IF FirstIndex(db, frame.ref) = 0 THEN db
    ELSE [db EXCEPT ![FirstIndex(db, frame.ref)] = task]

\* A request of client c arrives and waits for the event loop.
Accept(c) ==
    /\ frames[c].pc = "idle"
    /\ frames' = [frames EXCEPT ![c] = [IdleFrame EXCEPT !.pc = "pending"]]
    /\ UNCHANGED <<tasks_db, hist, running>>

\* The event loop calls the handler of c's request.
Start(c, req) ==
    /\ At(c, "pending")
    /\ req.op = "create" => Len(tasks_db) < MaxTasks /\ uuid4(issued) # {}
    /\ Goto(c, req.op, [IdleFrame EXCEPT !.req = req, !.db0 = tasks_db])
    /\ UNCHANGED <<tasks_db, hist>>

\* list_tasks: return {"tasks": tasks_db, "total": len(tasks_db)}
list_return(c) ==
    /\ At(c, "list")
    /\ Return(c, list_tasks_response(tasks_db))
    /\ UNCHANGED <<tasks_db, hist>>

\* create_task: task = Task(id=str(uuid4()), ..., datetime.now(), ...)
create_build(c) ==
    /\ At(c, "create")
    /\ \E id \in uuid4(issued), t1 \in datetime_now, t2 \in datetime_now :
          /\ Goto(c, "create_append",
                  [frames[c] EXCEPT
                      !.task = NewTask(id, frames[c].req.task_data, t1, t2)])
          /\ issued' = issued \cup {id}
    /\ UNCHANGED <<tasks_db, gone, nCreated, nDeleted>>

\* create_task: tasks_db.append(task); return task
create_append(c) ==
    /\ At(c, "create_append")
    /\ tasks_db' = Append(tasks_db, frames[c].task)
    /\ gone' = gone \ {frames[c].task.id}
    /\ nCreated' = nCreated + 1
    /\ Return(c, create_task_response(frames[c].task))
    /\ UNCHANGED <<issued, nDeleted>>

\* get_task: task = next((t for t in tasks_db if t.id == task_id), None)
get_find(c) ==
    /\ At(c, "get")
    /\ LET i == FirstIndex(tasks_db, frames[c].req.task_id) IN
       Goto(c, "get_return",
            IF i = 0 THEN frames[c]
            ELSE [frames[c] EXCEPT !.ref = tasks_db[i].id,
                                   !.task = tasks_db[i]])
    /\ UNCHANGED <<tasks_db, hist>>

\* get_task: if not task: raise 404; return task
get_return(c) ==
    /\ At(c, "get_return")
    /\ Return(c, IF frames[c].ref = 0 THEN NotFound(frames[c].req.task_id)
                 ELSE [status |-> 200, body |-> Object(tasks_db, frames[c])])
    /\ UNCHANGED <<tasks_db, hist>>

\* update_task: task = next(...); if not task: raise 404
update_find(c) ==
    /\ At(c, "update")
    /\ LET i == FirstIndex(tasks_db, frames[c].req.task_id) IN
       IF i = 0
       THEN Return(c, NotFound(frames[c].req.task_id))
       ELSE Goto(c, "update_title",
                 [frames[c] EXCEPT !.ref = tasks_db[i].id,
                                   !.task = tasks_db[i]])
    /\ UNCHANGED <<tasks_db, hist>>

\* One of update_task's assignments to the found task: task is the object
\* after the assignment, label the statement that follows.
UpdateStep(c, task, label) ==
    /\ tasks_db' = Assign(tasks_db, frames[c], task)
    /\ Goto(c, label, [frames[c] EXCEPT !.task = task])
    /\ UNCHANGED hist

\* update_task: if task_update.title is not None: task.title = ...
update_title(c) ==
    /\ At(c, "update_title")
    /\ UpdateStep(c, SetTitle(Object(tasks_db, frames[c]),
                              frames[c].req.task_update),
                  "update_description")

\* update_task: if task_update.description is not None: ...
update_description(c) ==
    /\ At(c, "update_description")
    /\ UpdateStep(c, SetDescription(Object(tasks_db, frames[c]),
                                    frames[c].req.task_update),
                  "update_completed")

\* update_task: if task_update.completed is not None: ...
update_completed(c) ==
    /\ At(c, "update_completed")
    /\ UpdateStep(c, SetCompleted(Object(tasks_db, frames[c]),
                                  frames[c].req.task_update),
                  "update_updated_at")

\* update_task: task.updated_at = datetime.now(); return task
update_updated_at(c) ==
    /\ At(c, "update_updated_at")
    /\ \E t \in datetime_now :
          LET task == [Object(tasks_db, frames[c]) EXCEPT !.updated_at = t] IN
          /\ tasks_db' = Assign(tasks_db, frames[c], task)
          /\ Return(c, [status |-> 200, body |-> task])
    /\ UNCHANGED hist

\* delete_task: task_index = next(...); if task_index is None: raise 404
delete_find(c) ==
    /\ At(c, "delete")
    /\ LET task_index == FirstIndex(tasks_db, frames[c].req.task_id) IN
       IF task_index = 0
       THEN Return(c, NotFound(frames[c].req.task_id))
       ELSE Goto(c, "delete_pop", [frames[c] EXCEPT !.ref = task_index])
    /\ UNCHANGED <<tasks_db, hist>>

\* delete_task: deleted_task = tasks_db.pop(task_index); an index past the
\* end raises IndexError, which the framework answers with 500.
delete_pop(c) ==
    /\ At(c, "delete_pop")
    /\ IF frames[c].ref <= Len(tasks_db)
       THEN /\ tasks_db' = Pop(tasks_db, frames[c].ref)
            /\ gone' = gone \cup {tasks_db[frames[c].ref].id}
            /\ nDeleted' = nDeleted + 1
            /\ Return(c, [status |-> 204, body |-> [detail_id |-> 0]])
            /\ UNCHANGED <<issued, nCreated>>
       ELSE /\ Return(c, [status |-> 500, body |-> [detail_id |-> 0]])
            /\ UNCHANGED <<tasks_db, hist>>

\* metrics: completed_tasks = len([t for t in tasks_db if t.completed])
metrics_completed(c) ==
    /\ At(c, "metrics")
    /\ Goto(c, "metrics_pending",
            [frames[c] EXCEPT !.completed_tasks = CountCompleted(tasks_db)])
    /\ UNCHANGED <<tasks_db, hist>>

\* metrics: pending_tasks = len([t for t in tasks_db if not t.completed])
metrics_pending(c) ==
    /\ At(c, "metrics_pending")
    /\ Goto(c, "metrics_return",
            [frames[c] EXCEPT !.pending_tasks = CountPending(tasks_db)])
    /\ UNCHANGED <<tasks_db, hist>>

\* metrics: the f-string with len(tasks_db) and the two locals; return
metrics_return(c) ==
    /\ At(c, "metrics_return")
    /\ Return(c, metrics_text(Len(tasks_db), frames[c].completed_tasks,
                              frames[c].pending_tasks))
    /\ UNCHANGED <<tasks_db, hist>>

\* The client has its response.
Receive(c) ==
    /\ frames[c].pc = "done"
    /\ frames' = [frames EXCEPT ![c] = IdleFrame]
    /\ UNCHANGED <<tasks_db, hist, running>>

NextLoop ==
    \E c \in Clients :
       \/ Accept(c)
       \/ \E req \in Requests : Start(c, req)
       \/ list_return(c)
       \/ create_build(c)
       \/ create_append(c)
       \/ get_find(c)
       \/ get_return(c)
       \/ update_find(c)
       \/ update_title(c)
       \/ update_description(c)
       \/ update_completed(c)
       \/ update_updated_at(c)
       \/ delete_find(c)
       \/ delete_pop(c)
       \/ metrics_completed(c)
       \/ metrics_pending(c)
       \/ metrics_return(c)
       \/ Receive(c)

SpecLoop == Init /\ [][NextLoop]_vars

(* ------------------------- claims checked under Spec ------------------ *)

LastTask(db) == db[Len(db)]
Found(task_id) == FirstIndex(tasks_db, task_id) # 0
LiveIds == {tasks_db[i].id : i \in 1..Len(tasks_db)}

\* C1: every successful Create(T, D) stores and returns a task with title T,
\* description D, completed false and created_at equal to updated_at.
C1_CreateYieldsFreshTask ==
    [][\A task_data \in TaskCreate :
          create_task(task_data) =>
             LET task == LastTask(tasks_db') IN
             /\ Len(tasks_db') = Len(tasks_db) + 1
             /\ create_task_response(task).status = 201
             /\ create_task_response(task).body = task
             /\ task.title = task_data.title
             /\ task.description = task_data.description
             /\ task.completed = FALSE
             /\ task.created_at = task.updated_at]_vars

\* C2: in every reachable state every stored task has
\* created_at <= updated_at.
C2_CreatedNotAfterUpdated ==
    \A i \in 1..Len(tasks_db) :
       tasks_db[i].created_at <= tasks_db[i].updated_at

\* C3: no two stored tasks share an id, and every Create was given an id
\* that no earlier Create was given, deleted or not: the ids handed out are
\* as many as the Creates, and every stored id is one of them.
C3_IdsUniqueNeverReused ==
    /\ \A i, j \in 1..Len(tasks_db) :
          tasks_db[i].id = tasks_db[j].id => i = j
    /\ Cardinality(issued) = nCreated
    /\ LiveIds \subseteq issued

C3_Witness ==
    /\ nCreated = 3
    /\ nDeleted >= 1
    /\ Len(tasks_db) = 2

\* C4: Get(id) succeeds (200, with the task of that id) exactly when id was
\* returned by a Create and not deleted since; otherwise, and so after every
\* successful Delete(id), it fails with 404.
C4_GetIffCreatedNotDeleted ==
    \A task_id \in Ids :
       LET r == get_task_response(tasks_db, task_id) IN
       /\ r.status \in {200, 404}
       /\ r.status = 200 <=> task_id \in issued \ gone
       /\ r.status = 200 => r.body.id = task_id
       /\ task_id \in gone => r = NotFound(task_id)

C4_Witness ==
    \E a, b \in Ids :
       /\ a \in gone
       /\ get_task_response(tasks_db, a).status = 404
       /\ b \in issued \ gone
       /\ get_task_response(tasks_db, b).status = 200

\* C5: a successful Update(id, fields) changes, in the task with that id,
\* only the supplied fields and updated_at; id, created_at and the unsupplied
\* fields keep their values, every other task is unchanged, and an Update
\* with no field changes nothing but updated_at.
C5_UpdateFrame ==
    \A task_id \in Ids, task_update \in TaskUpdate, t \in datetime_now :
       Found(task_id) =>
          LET after == Updated(tasks_db, task_id, task_update, t)
              i == FirstIndex(tasks_db, task_id)
              old == tasks_db[i]
              new == after[i]
          IN
          /\ Len(after) = Len(tasks_db)
          /\ \A j \in 1..Len(tasks_db) : j # i => after[j] = tasks_db[j]
          /\ new.id = old.id
          /\ new.created_at = old.created_at
          /\ new.title = IF task_update.title = {} THEN old.title
                         ELSE ValueOf(task_update.title)
          /\ new.description = IF task_update.description = {}
                               THEN old.description
                               ELSE ValueOf(task_update.description)
          /\ new.completed = IF task_update.completed = {}
                             THEN old.completed
                             ELSE ValueOf(task_update.completed)
          /\ new.updated_at = t
          /\ task_update = NoUpdate => new = [old EXCEPT !.updated_at = t]
          /\ update_task_response(after, task_id)
                = [status |-> 200, body |-> new]

\* A task that an Update completed and retitled beside one left alone.
C5_Witness ==
    /\ Len(tasks_db) = 2
    /\ tasks_db[1].completed
    /\ tasks_db[1].title = "t2"
    /\ tasks_db[1].description = "d1"
    /\ ~tasks_db[2].completed

\* C6: every successful Update sets updated_at to a value greater than or
\* equal to the one the task had before.
C6_UpdatedAtNeverDecreases ==
    [][\A task_id \in Ids, task_update \in TaskUpdate :
          (Found(task_id) /\ update_task(task_id, task_update)) =>
             LET i == FirstIndex(tasks_db, task_id) IN
             tasks_db'[i].updated_at >= tasks_db[i].updated_at]_vars

\* C7: after N successful Creates and M successful Deletes, List reports
\* total = N - M and returns that many tasks (a Delete or Update that fails
\* counts in neither N nor M).
C7_ListTotal ==
    LET r == list_tasks_response(tasks_db) IN
    /\ r.status = 200
    /\ nDeleted <= nCreated
    /\ r.body.total = nCreated - nDeleted
    /\ Len(r.body.tasks) = nCreated - nDeleted

C7_Witness ==
    /\ nCreated = 3
    /\ nDeleted = 2
    /\ list_tasks_response(tasks_db).body.total = 1

\* C8: Metrics reports tasks_total = number of stored tasks, tasks_completed
\* = number of them that are completed, tasks_pending = tasks_total -
\* tasks_completed.
C8_MetricsCounts ==
    LET m == metrics_response(tasks_db).body IN
    /\ metrics_response(tasks_db).status = 200
    /\ m.tasks_total = Len(tasks_db)
    /\ m.tasks_completed = Len(SelectSeq(tasks_db, LAMBDA t : t.completed))
    /\ m.tasks_pending = m.tasks_total - m.tasks_completed

C8_Witness ==
    LET m == metrics_response(tasks_db).body IN
    /\ m.tasks_total = 2
    /\ m.tasks_completed = 1
    /\ m.tasks_pending = 1

Outcomes(req, db) ==
    CASE req.op = "list" ->
            {[db |-> db, result |-> list_tasks_response(db)]}
      [] req.op = "metrics" ->
            {[db |-> db, result |-> metrics_response(db)]}
      [] req.op = "get" ->
            {[db |-> db, result |-> get_task_response(db, req.task_id)]}
      [] req.op = "create" ->
            {[db |-> Append(db, NewTask(id, req.task_data, t1, t2)),
              result |-> create_task_response(
                            NewTask(id, req.task_data, t1, t2))] :
                id \in Ids, t1 \in Times, t2 \in Times}
      [] req.op = "update" ->
            {[db |-> Updated(db, req.task_id, req.task_update, t),
              result |-> update_task_response(
                            Updated(db, req.task_id, req.task_update, t),
                            req.task_id)] : t \in Times}
      [] req.op = "delete" ->
            {[db |-> Deleted(db, req.task_id),
              result |-> delete_task_response(db, req.task_id)]}
      [] OTHER -> {}

\* C9: with several requests in flight, each takes effect atomically: while
\* a handler is between its first statement and its return no other handler
\* is, and no step but its own changes the list; when it returns, the list
\* and its response are what the operation gives when run alone on the list
\* it found at its start.  The handlers then ran one after another, in the
\* order of their returns.
C9_HandlersAtomic ==
    /\ [](\A c, d \in Clients :
             (Mid(frames[c]) /\ Mid(frames[d])) => c = d)
    /\ [][\A c \in Clients :
             /\ (Mid(frames[c]) /\ frames'[c] = frames[c])
                   => tasks_db' = tasks_db
             /\ (Mid(frames[c]) /\ frames'[c].pc = "done")
                   => [db |-> tasks_db', result |-> frames'[c].result]
                         \in Outcomes(frames[c].req, frames[c].db0)]_vars

\* An Update has retitled its task and not yet completed it, while the
\* other client's request waits for the event loop.
C9_Witness ==
    /\ frames[1].pc = "update_completed"
    /\ frames[1].req.task_update # NoUpdate
    /\ tasks_db # frames[1].db0
    /\ ~tasks_db[FirstIndex(tasks_db, frames[1].ref)].completed
    /\ frames[2].pc = "pending"
    /\ Len(tasks_db) = 2

====
